---- MODULE Spec2Model ----
(***************************************************************************)
(* Amazon Price Tracker (price_v2.py): the price normaliser, the currency  *)
(* hint, the title/price locator chains of fetch_amazon_price, and the     *)
(* MainWindow handlers that fetch, alert and append to the CSV history.    *)
(*                                                                         *)
(* A Python str is a sequence of one-character strings.  A Python float    *)
(* that float() produced from digits and one '.' is the decimal fraction   *)
(* m / 10^e in lowest form.  Python None is NoneVal.                       *)
(***************************************************************************)
EXTENDS Integers, Sequences, FiniteSets, TLC

VARIABLES
    text, price_out, hint_out,          \* one call of the two pure helpers
    page, result,                       \* one call of fetch_amazon_price
    url_input, target_price, headless,  \* MainWindow widgets
    last_result, fetch_btn, save_btn,   \* MainWindow state
    csv_file,                           \* data/price_history.csv
    op, shown, fetched,                 \* last handler, its message box, its fetch result
    calls, frames                       \* concurrent calls and their local variables

pureVars == <<text, price_out, hint_out>>
extractVars == <<page, result>>
guiVars == <<url_input, target_price, headless, last_result, fetch_btn, save_btn,
             csv_file, op, shown, fetched>>
concVars == <<calls, frames>>
vars == <<pureVars, extractVars, guiVars, concVars>>

---------------------------------------------------------------------------
(* Bounds *)

MaxLen == 4
MaxNodes == 3
MaxTarget == 2
MaxRows == 2
NCalls == 2

---------------------------------------------------------------------------
(* Python values *)

NoneVal == [tag |-> "None"]
PyStr(s) == [tag |-> "str", s |-> s]
Pending == [tag |-> "pending"]

Digits == {"0", "1", "2", "3", "4", "5", "6", "7", "8", "9"}
Whitespace == {" ", "\t", "\n", "\r", "\f"}

DigitVal(c) ==
    CASE c = "0" -> 0 [] c = "1" -> 1 [] c = "2" -> 2 [] c = "3" -> 3
      [] c = "4" -> 4 [] c = "5" -> 5 [] c = "6" -> 6 [] c = "7" -> 7
      [] c = "8" -> 8 [] c = "9" -> 9

RECURSIVE Pow10(_)
Pow10(n) == IF n = 0 THEN 1 ELSE 10 * Pow10(n - 1)

\* the float with value m / 10^e, in lowest form
RECURSIVE Float(_, _)
Float(m, e) ==
    IF e > 0 /\ m % 10 = 0 THEN Float(m \div 10, e - 1)
    ELSE [tag |-> "float", m |-> m, e |-> e]

\* str.rfind(ch): 0-based index of the last occurrence, -1 when absent
rfind(s, ch) ==
    LET occ == {i \in 1..Len(s) : s[i] = ch}
    IN  IF occ = {} THEN -1 ELSE (CHOOSE i \in occ : \A j \in occ : j <= i) - 1

Contains(s, ch) == \E i \in 1..Len(s) : s[i] = ch

\* str.replace(a, b) for a one-character a and a string b
RECURSIVE replace(_, _, _)
replace(s, a, b) ==
    IF s = <<>> THEN <<>>
    ELSE (IF Head(s) = a THEN b ELSE <<Head(s)>>) \o replace(Tail(s), a, b)

\* str.strip(): drop leading and trailing whitespace
RECURSIVE lstrip(_)
lstrip(s) == IF s # <<>> /\ Head(s) \in Whitespace THEN lstrip(Tail(s)) ELSE s

RECURSIVE rstrip(_)
rstrip(s) ==
    IF s # <<>> /\ s[Len(s)] \in Whitespace THEN rstrip(SubSeq(s, 1, Len(s) - 1)) ELSE s

strip(s) == rstrip(lstrip(s))

RECURSIVE DigitsToNat(_)
DigitsToNat(ds) ==
    IF ds = <<>> THEN 0
    ELSE 10 * DigitsToNat(SubSeq(ds, 1, Len(ds) - 1)) + DigitVal(ds[Len(ds)])

\* float(s) for s made of ASCII digits, '.' and ',': the literal needs at
\* least one digit and at most one '.', and nothing else; ValueError is NoneVal
float(s) ==
    LET dots == {i \in 1..Len(s) : s[i] = "."}
        digs == SelectSeq(s, LAMBDA c : c \in Digits)
    IN  IF \/ \E i \in 1..Len(s) : s[i] \notin Digits \cup {"."}
           \/ Cardinality(dots) > 1
           \/ digs = <<>>
        THEN NoneVal
        ELSE Float(DigitsToNat(digs),
                   IF dots = {} THEN 0 ELSE Len(s) - (CHOOSE i \in dots : TRUE))

---------------------------------------------------------------------------
(* normalize_price_to_float and the currency hint *)

\* re.sub(r"[^\d\.,]", "", text).strip()
Cleaned(t) == strip(SelectSeq(t, LAMBDA c : c \in Digits \cup {".", ","}))

\* the separator rewriting of lines 91-104 with the comparison reversed
SeparatorsReversed(cleaned) ==
    IF Contains(cleaned, ".") /\ Contains(cleaned, ",")
    THEN IF rfind(cleaned, ",") < rfind(cleaned, ".")
         THEN replace(replace(cleaned, ".", <<>>), ",", <<".">>)
         ELSE replace(cleaned, ",", <<>>)
    ELSE IF Contains(cleaned, ",")
         THEN replace(replace(cleaned, ".", <<>>), ",", <<".">>)
         ELSE cleaned

\* the separator rewriting of lines 91-104
Separators(cleaned) ==
    IF Contains(cleaned, ".") /\ Contains(cleaned, ",")
    THEN IF rfind(cleaned, ",") > rfind(cleaned, ".")
         THEN replace(replace(cleaned, ".", <<>>), ",", <<".">>)
         ELSE replace(cleaned, ",", <<>>)
    ELSE IF Contains(cleaned, ",")
         THEN replace(replace(cleaned, ".", <<>>), ",", <<".">>)
         ELSE cleaned

normalize_price_to_float(t) ==
    IF t = <<>> THEN NoneVal
    ELSE IF Cleaned(t) = <<>> THEN NoneVal
    ELSE float(Separators(Cleaned(t)))

\* the hint with ',' left out of the character class
currency_hint_keeps_comma(price_text) ==
    strip(SelectSeq(price_text, LAMBDA c : c \notin Digits \cup {"."} \cup Whitespace))

\* re.sub(r"[\d\.,\s]", "", price_text).strip()
currency_hint(price_text) ==
    strip(SelectSeq(price_text, LAMBDA c : c \notin Digits \cup {".", ","} \cup Whitespace))

---------------------------------------------------------------------------
(* Inputs of the pure helpers: every string up to MaxLen over a small      *)
(* alphabet, and the strings the documentation names.                      *)

Alphabet == {"0", "5", ".", ",", "$", " "}

RECURSIVE StringsOfLen(_)
StringsOfLen(n) ==
    IF n = 0 THEN {<<>>}
    ELSE {<<c>> \o s : c \in Alphabet, s \in StringsOfLen(n - 1)}

BoundedStrings == UNION {StringsOfLen(n) : n \in 0..MaxLen}

Ex_TR == <<"1", ".", "2", "3", "4", ",", "5", "6", " ", "T", "L">>
Ex_US == <<"1", ",", "2", "3", "4", ".", "5", "6">>
Ex_Comma == <<"4", "9", ",", "9", "0">>
Ex_Dollar == <<"$", "4", "9", ".", "9", "0">>
Ex_Dash == <<"-">>
Ex_Abc == <<"a", "b", "c">>
Ex_Plain == <<"4", "9", ".", "9", "0">>
Examples == {Ex_TR, Ex_US, Ex_Comma, Ex_Dollar, Ex_Dash, Ex_Abc, Ex_Plain}

Texts == BoundedStrings \cup Examples

---------------------------------------------------------------------------
(* The parsed page.  A soup is the sequence, in document order, of the     *)
(* elements that some selector of the program can match.  An element is    *)
(* named by the most specific selector that matches it and holds its text  *)
(* nodes in document order.                                                *)

TitleSelectors == <<"#productTitle", "h1#title">>

candidates ==
    << "#priceblock_ourprice",
       "#priceblock_dealprice",
       "#priceblock_saleprice",
       "span.a-price span.a-offscreen",
       "#corePriceDisplay_desktop_feature_div span.a-price span.a-offscreen",
       "#corePrice_feature_div span.a-price span.a-offscreen" >>

Tag(el, strings) == [tag |-> "Tag", el |-> el, strings |-> strings]

\* a descendant selector also matches the elements of the longer selectors
\* that end with it
Matches(sel, node) ==
    \/ node.el = sel
    \/ sel = candidates[4] /\ node.el \in {candidates[5], candidates[6]}

\* soup.select_one(sel): the first matching element in document order
select_one(soup, sel) ==
    LET hit == {i \in 1..Len(soup) : Matches(sel, soup[i])}
    IN  IF hit = {} THEN NoneVal ELSE soup[CHOOSE i \in hit : \A j \in hit : i <= j]

\* el.get_text(" ", strip=True) over the element's text nodes
RECURSIVE JoinStripped(_)
JoinStripped(strings) ==
    IF strings = <<>> THEN <<>>
    ELSE LET s == strip(Head(strings))
             rest == JoinStripped(Tail(strings))
         IN  IF s = <<>> THEN rest
             ELSE IF rest = <<>> THEN s
             ELSE s \o <<" ">> \o rest

get_text(el) == JoinStripped(el.strings)

\* lines 147-150: `a or b` keeps a whenever it is an element
TitleOf(soup) ==
    LET a == select_one(soup, TitleSelectors[1])
        title_el == IF a # NoneVal THEN a ELSE select_one(soup, TitleSelectors[2])
    IN  IF title_el # NoneVal THEN get_text(title_el) ELSE <<>>

\* the loop of lines 163-169 without its break
RECURSIVE PriceLoopNoBreak(_, _, _)
PriceLoopNoBreak(soup, i, price_text) ==
    IF i > Len(candidates) THEN price_text
    ELSE LET el == select_one(soup, candidates[i])
         IN  IF el # NoneVal /\ get_text(el) # <<>>
             THEN PriceLoopNoBreak(soup, i + 1, PyStr(get_text(el)))
             ELSE PriceLoopNoBreak(soup, i + 1, price_text)

\* the loop of lines 163-169 from candidate i on, price_text so far
RECURSIVE PriceLoop(_, _, _)
PriceLoop(soup, i, price_text) ==
    IF i > Len(candidates) THEN price_text
    ELSE LET el == select_one(soup, candidates[i])
         IN  IF el # NoneVal /\ get_text(el) # <<>>
             THEN PyStr(get_text(el))
             ELSE PriceLoop(soup, i + 1, price_text)

NotFoundMsg ==
    "Price element not found. The page layout may be different or blocked by Amazon."
UnparseableMsg ==
    "Price could not be parsed. The content may be blocked or the format is unexpected."

Return(data) == [kind |-> "return", data |-> data]
Raise(exc, msg) == [kind |-> "raise", exc |-> exc, msg |-> msg]

Loaded(soup) == [load |-> "ok", soup |-> soup]
LoadFailed(exc) == [load |-> exc]

\* lines 171-190 without the check of lines 171-174: re.sub meets None
AssembleUnchecked(url, title, price_text) ==
    IF price_text = NoneVal
    THEN Raise("TypeError", "expected string or bytes-like object")
    ELSE LET hint == currency_hint(price_text.s)
             price_val == normalize_price_to_float(price_text.s)
         IN  IF price_val = NoneVal
             THEN Raise("RuntimeError", UnparseableMsg)
             ELSE Return([tag |-> "dict", url |-> url, title |-> title,
                          price |-> price_val, price_text |-> price_text.s,
                          currency_hint |-> hint])

\* lines 171-190 without the check of lines 179-182: the dict carries None
AssemblePartial(url, title, price_text) ==
    IF price_text = NoneVal
    THEN Raise("RuntimeError", NotFoundMsg)
    ELSE Return([tag |-> "dict", url |-> url, title |-> title,
                 price |-> normalize_price_to_float(price_text.s),
                 price_text |-> price_text.s,
                 currency_hint |-> currency_hint(price_text.s)])

\* lines 171-190 for the price_text the loop left
Assemble(url, title, price_text) ==
    IF price_text = NoneVal
    THEN Raise("RuntimeError", NotFoundMsg)
    ELSE LET hint == currency_hint(price_text.s)
             price_val == normalize_price_to_float(price_text.s)
         IN  IF price_val = NoneVal
             THEN Raise("RuntimeError", UnparseableMsg)
             ELSE Return([tag |-> "dict", url |-> url, title |-> title,
                          price |-> price_val, price_text |-> price_text.s,
                          currency_hint |-> hint])

\* fetch_amazon_price(url): pg is what the browser did with the URL
fetch_amazon_price(url, pg) ==
    IF pg.load # "ok" THEN Raise(pg.load, "")
    ELSE Assemble(url, TitleOf(pg.soup), PriceLoop(pg.soup, 1, NoneVal))

---------------------------------------------------------------------------
(* Pages: every soup of at most MaxNodes elements drawn from a pool, and   *)
(* the two ways the browser fails.                                         *)

Elements ==
    { Tag(TitleSelectors[1], << <<" ">> >>),
      Tag(TitleSelectors[1], << <<"W">> >>),
      Tag(TitleSelectors[2], <<>>),
      Tag(TitleSelectors[2], << <<"X">>, <<" ">>, <<"Y", " ">> >>),
      Tag(candidates[1], <<>>),
      Tag(candidates[1], << <<" ", "$", "5">> >>),
      Tag(candidates[2], << <<"-">> >>),
      Tag(candidates[3], << <<"5", ",", "5">>, <<" ", "T">> >>),
      Tag(candidates[4], << <<" ">> >>),
      Tag(candidates[4], << <<" ", "$", "5">> >>),
      Tag(candidates[5], <<>>),
      Tag(candidates[5], << <<"5", ",", "5">>, <<" ", "T">> >>),
      Tag(candidates[6], << <<"-">> >>),
      Tag(candidates[6], << <<" ", "$", "5">> >>) }

RECURSIVE SoupsOfLen(_)
SoupsOfLen(n) ==
    IF n = 0 THEN {<<>>}
    ELSE {<<e>> \o s : e \in Elements, s \in SoupsOfLen(n - 1)}

Soups == UNION {SoupsOfLen(n) : n \in 0..MaxNodes}

Pages == {Loaded(s) : s \in Soups}
         \cup {LoadFailed("TimeoutException"), LoadFailed("WebDriverException")}

AmazonUrl == <<"a", "m", "a", "z", "o", "n", ".", "t", "r", "/", "1">>

---------------------------------------------------------------------------
(* Specification SpecPure: one call of each pure helper on a bounded text  *)

PureIdle == text = <<>> /\ price_out = Pending /\ hint_out = Pending
ExtractIdle == page = LoadFailed("idle") /\ result = Pending

CallNormalize ==
    /\ price_out = Pending
    /\ price_out' = normalize_price_to_float(text)
    /\ UNCHANGED <<text, hint_out, extractVars, guiVars, concVars>>

CallCurrencyHint ==
    /\ hint_out = Pending
    /\ hint_out' = PyStr(currency_hint(text))
    /\ UNCHANGED <<text, price_out, extractVars, guiVars, concVars>>

---------------------------------------------------------------------------
(* Specification SpecExtract: one call of fetch_amazon_price on a page     *)

CallFetch ==
    /\ result = Pending
    /\ result' = fetch_amazon_price(AmazonUrl, page)
    /\ UNCHANGED <<page, pureVars, guiVars, concVars>>

---------------------------------------------------------------------------
(* MainWindow and the CSV history *)

UpperCase == <<"A", "B", "C", "D", "E", "F", "G", "H", "I", "J", "K", "L", "M",
               "N", "O", "P", "Q", "R", "S", "T", "U", "V", "W", "X", "Y", "Z">>
LowerCase == <<"a", "b", "c", "d", "e", "f", "g", "h", "i", "j", "k", "l", "m",
               "n", "o", "p", "q", "r", "s", "t", "u", "v", "w", "x", "y", "z">>

\* str.lower()
lower(s) ==
    [i \in 1..Len(s) |->
        IF \E k \in 1..26 : UpperCase[k] = s[i]
        THEN LowerCase[CHOOSE k \in 1..26 : UpperCase[k] = s[i]]
        ELSE s[i]]

\* needle in s
IsSubstring(needle, s) ==
    \E i \in 0..(Len(s) - Len(needle)) : SubSeq(s, i + 1, i + Len(needle)) = needle

\* line 285: the URL check of fetch_price
InvalidUrl(url) ==
    url = <<>> \/ ~IsSubstring(<<"a", "m", "a", "z", "o", "n">>, lower(url))

DigitChar(d) == <<"0", "1", "2", "3", "4", "5", "6", "7", "8", "9">>[d + 1]

\* decimal digits of a natural number
RECURSIVE NatStr(_)
NatStr(n) ==
    IF n < 10 THEN <<DigitChar(n)>> ELSE NatStr(n \div 10) \o <<DigitChar(n % 10)>>

RECURSIVE ZeroPad(_, _)
ZeroPad(ds, n) == IF Len(ds) >= n THEN ds ELSE ZeroPad(<<"0">> \o ds, n)

\* str(price) as csv.writer writes a float: shortest decimal, always with a '.'
FloatStr(p) ==
    IF p.e = 0 THEN NatStr(p.m) \o <<".", "0">>
    ELSE LET ds == ZeroPad(NatStr(p.m), p.e + 1)
         IN  SubSeq(ds, 1, Len(ds) - p.e) \o <<".">> \o SubSeq(ds, Len(ds) - p.e + 1, Len(ds))

Header ==
    << <<"t", "i", "m", "e", "s", "t", "a", "m", "p">>,
       <<"u", "r", "l">>,
       <<"t", "i", "t", "l", "e">>,
       <<"p", "r", "i", "c", "e">>,
       <<"r", "a", "w", "_", "p", "r", "i", "c", "e">> >>

NoFile == [exists |-> FALSE]
File(rows) == [exists |-> TRUE, rows |-> rows]

\* append_history_csv writing the header on every call
append_history_csv_always_header(file, now, url, title, price, raw_price) ==
    File((IF file.exists THEN file.rows ELSE <<>>)
         \o <<Header, <<now, url, title, FloatStr(price), raw_price>> >>)

\* append_history_csv: the file after the call; now is now_str()
append_history_csv(file, now, url, title, price, raw_price) ==
    LET file_exists == file.exists
        old == IF file_exists THEN file.rows ELSE <<>>
        withHeader == IF ~file_exists THEN Append(old, Header) ELSE old
    IN  File(Append(withHeader, <<now, url, title, FloatStr(price), raw_price>>))

\* price <= target for a float price and an int target
LeqInt(price, target) == price.m <= target * Pow10(price.e)

\* line 319 with < for <=
TargetReachedStrict(target, price) ==
    target > 0 /\ price # NoneVal /\ price.m < target * Pow10(price.e)

\* line 319
TargetReached(target, price) ==
    target > 0 /\ price # NoneVal /\ LeqInt(price, target)

\* line 294 left out: last_result keeps its value
LastResultKept == last_result

\* line 294: self.last_result = None
LastResultReset == NoneVal

\* what the user can type into url_input
Urls ==
    { <<>>,
      <<" ", " ">>,
      <<"e", "b", "a", "y", ".", "t", "r">>,
      <<" ", "A", "m", "a", "Z", "O", "N", ".", "t", "r", "/", "1", " ">> }

\* now_str() at two moments
Timestamps ==
    { <<"2", "0", "2", "5", "-", "0", "1", "-", "0", "1", " ",
        "0", "0", ":", "0", "0", ":", "0", "0">>,
      <<"2", "0", "2", "5", "-", "0", "1", "-", "0", "1", " ",
        "0", "0", ":", "0", "0", ":", "0", "1">> }

\* what the browser can answer to a fetch of the window
GuiPages ==
    { Loaded(<< Tag(TitleSelectors[1], << <<"W">> >>),
                Tag(candidates[1], << <<"$", "2">> >>) >>),
      Loaded(<< Tag(candidates[4], << <<"1", ",", "5">>, <<" ", "T">> >>) >>),
      Loaded(<< Tag(candidates[2], << <<"0", ".", "0", "0">> >>) >>),
      Loaded(<< Tag(TitleSelectors[2], << <<"W">> >>),
                Tag(candidates[3], << <<"-">> >>) >>),
      Loaded(<< Tag(TitleSelectors[1], << <<"W">> >>) >>),
      LoadFailed("TimeoutException"),
      LoadFailed("WebDriverException") }

GuiIdle ==
    /\ url_input = <<>>
    /\ target_price = 0
    /\ headless = TRUE
    /\ last_result = NoneVal
    /\ fetch_btn = TRUE
    /\ save_btn = FALSE
    /\ csv_file = NoFile
    /\ op = "init"
    /\ shown = ""
    /\ fetched = Pending

\* the user edits url_input
EditUrl ==
    /\ \E u \in Urls : url_input' = u
    /\ op' = "edit_url"
    /\ shown' = ""
    /\ UNCHANGED <<target_price, headless, last_result, fetch_btn, save_btn, csv_file,
                   fetched, pureVars, extractVars, concVars>>

\* the user sets the target_price spin box (range 0..10_000_000)
SetTarget ==
    /\ \E t \in 0..MaxTarget : target_price' = t
    /\ op' = "set_target"
    /\ shown' = ""
    /\ UNCHANGED <<url_input, headless, last_result, fetch_btn, save_btn, csv_file,
                   fetched, pureVars, extractVars, concVars>>

\* toggle_headless: the checkable button flips
ToggleHeadless ==
    /\ headless' = ~headless
    /\ op' = "toggle_headless"
    /\ shown' = ""
    /\ UNCHANGED <<url_input, target_price, last_result, fetch_btn, save_btn, csv_file,
                   fetched, pureVars, extractVars, concVars>>

\* fetch_price: a click on the enabled Fetch button; pg is the browser's answer
FetchPrice(pg) ==
    /\ fetch_btn
    /\ op' = "fetch_price"
    /\ LET url == strip(url_input)
       IN  IF InvalidUrl(url)
           THEN /\ shown' = "Invalid URL"
                /\ UNCHANGED <<last_result, fetch_btn, save_btn, fetched>>
           ELSE LET r == fetch_amazon_price(url, pg)
                IN  /\ fetched' = r
                    /\ fetch_btn' = TRUE
                    /\ IF r.kind = "return"
                       THEN /\ last_result' = r.data
                            /\ save_btn' = TRUE
                            /\ shown' = IF TargetReached(target_price, r.data.price)
                                        THEN "Target Reached!" ELSE ""
                       ELSE /\ last_result' = LastResultReset
                            /\ save_btn' = FALSE
                            /\ shown' = "Error"
    /\ UNCHANGED <<url_input, target_price, headless, csv_file,
                   pureVars, extractVars, concVars>>

\* save_history: a click on the enabled Save button; now is now_str()
SaveHistory(now) ==
    /\ save_btn
    /\ csv_file.exists => Len(csv_file.rows) <= MaxRows
    /\ op' = "save_history"
    /\ IF last_result = NoneVal
       THEN shown' = "" /\ UNCHANGED csv_file
       ELSE /\ csv_file' = append_history_csv(csv_file, now, last_result.url,
                                              last_result.title, last_result.price,
                                              last_result.price_text)
            /\ shown' = "Saved"
    /\ UNCHANGED <<url_input, target_price, headless, last_result, fetch_btn, save_btn,
                   fetched, pureVars, extractVars, concVars>>

---------------------------------------------------------------------------
(* Specification SpecConc: NCalls calls of fetch_amazon_price, each on its *)
(* own page, their statements interleaved.  calls[c] is what belongs to    *)
(* the call by construction (arguments, position, returned value);         *)
(* frames[Frame(c)] holds the variables the function body assigns.         *)

\* every call's variables live in one module-level place, the first frame
SharedFrame(c) == CHOOSE f \in DOMAIN frames : \A g \in DOMAIN frames : f <= g

\* the variables of lines 144-177 are locals of the call's own frame
Frame(c) == c

ConcPages ==
    { Loaded(<< Tag(TitleSelectors[1], << <<"W">> >>),
                Tag(candidates[1], << <<"$", "2">> >>) >>),
      Loaded(<< Tag(candidates[1], << <<" ">> >>),
                Tag(candidates[6], << <<"1", ",", "5">>, <<" ", "T">> >>) >>),
      Loaded(<< Tag(TitleSelectors[2], << <<"X">> >>),
                Tag(candidates[3], << <<"-">> >>) >>),
      LoadFailed("TimeoutException") }

NewFrame ==
    [soup |-> <<>>, title |-> <<>>, price_text |-> NoneVal, i |-> 1,
     currency_hint |-> <<>>, price_val |-> NoneVal]

ConcIdle == calls = <<>> /\ frames = <<>>

ConcInit ==
    /\ calls \in [1..NCalls -> {[url |-> AmazonUrl, pg |-> p, pc |-> "get", ret |-> Pending]
                                 : p \in ConcPages}]
    /\ frames = [c \in 1..NCalls |-> NewFrame]

Goto(c, label) == calls' = [calls EXCEPT ![c].pc = label]
Finish(c, r) == calls' = [calls EXCEPT ![c].pc = "done", ![c].ret = r]
Local(c) == frames[Frame(c)]
Assign(c, f) == frames' = [frames EXCEPT ![Frame(c)] = f]

\* lines 134-144: load the page and parse it
LoadPage(c) ==
    /\ calls[c].pc = "get"
    /\ IF calls[c].pg.load # "ok"
       THEN Finish(c, Raise(calls[c].pg.load, "")) /\ UNCHANGED frames
       ELSE Goto(c, "title") /\ Assign(c, [Local(c) EXCEPT !.soup = calls[c].pg.soup])
    /\ UNCHANGED <<pureVars, extractVars, guiVars>>

\* lines 147-153
LocateTitle(c) ==
    /\ calls[c].pc = "title"
    /\ Assign(c, [Local(c) EXCEPT !.title = TitleOf(Local(c).soup),
                                  !.price_text = NoneVal, !.i = 1])
    /\ Goto(c, "loop")
    /\ UNCHANGED <<pureVars, extractVars, guiVars>>

\* lines 163-169: one iteration of the candidates loop
TryCandidate(c) ==
    /\ calls[c].pc = "loop"
    /\ LET f == Local(c)
       IN  IF f.i > Len(candidates)
           THEN Goto(c, "check") /\ UNCHANGED frames
           ELSE LET el == select_one(f.soup, candidates[f.i])
                IN  IF el # NoneVal /\ get_text(el) # <<>>
                    THEN /\ Assign(c, [f EXCEPT !.price_text = PyStr(get_text(el))])
                         /\ Goto(c, "check")
                    ELSE /\ Assign(c, [f EXCEPT !.i = f.i + 1])
                         /\ UNCHANGED calls
    /\ UNCHANGED <<pureVars, extractVars, guiVars>>

\* lines 171-174
CheckFound(c) ==
    /\ calls[c].pc = "check"
    /\ IF Local(c).price_text = NoneVal
       THEN Finish(c, Raise("RuntimeError", NotFoundMsg))
       ELSE Goto(c, "hint")
    /\ UNCHANGED <<frames, pureVars, extractVars, guiVars>>

\* line 176
DeriveHint(c) ==
    /\ calls[c].pc = "hint"
    /\ Assign(c, [Local(c) EXCEPT !.currency_hint = currency_hint(Local(c).price_text.s)])
    /\ Goto(c, "normalize")
    /\ UNCHANGED <<pureVars, extractVars, guiVars>>

\* line 177
NormalizePrice(c) ==
    /\ calls[c].pc = "normalize"
    /\ Assign(c, [Local(c) EXCEPT
                    !.price_val = normalize_price_to_float(Local(c).price_text.s)])
    /\ Goto(c, "return")
    /\ UNCHANGED <<pureVars, extractVars, guiVars>>

\* lines 179-190
ReturnOrRaise(c) ==
    /\ calls[c].pc = "return"
    /\ LET f == Local(c)
       IN  IF f.price_val = NoneVal
           THEN Finish(c, Raise("RuntimeError", UnparseableMsg))
           ELSE Finish(c, Return([tag |-> "dict", url |-> calls[c].url,
                                  title |-> f.title, price |-> f.price_val,
                                  price_text |-> f.price_text.s,
                                  currency_hint |-> f.currency_hint]))
    /\ UNCHANGED <<frames, pureVars, extractVars, guiVars>>

---------------------------------------------------------------------------
(* Specifications *)

PureInit == text \in Texts /\ price_out = Pending /\ hint_out = Pending
ExtractInit == page \in Pages /\ result = Pending

InitPure == PureInit /\ ExtractIdle /\ GuiIdle /\ ConcIdle
NextPure == CallNormalize \/ CallCurrencyHint
SpecPure == InitPure /\ [][NextPure]_vars

InitExtract == PureIdle /\ ExtractInit /\ GuiIdle /\ ConcIdle
NextExtract == CallFetch
SpecExtract == InitExtract /\ [][NextExtract]_vars

Init == PureIdle /\ ExtractIdle /\ GuiIdle /\ ConcIdle
Next ==
    \/ EditUrl
    \/ SetTarget
    \/ ToggleHeadless
    \/ \E pg \in GuiPages : FetchPrice(pg)
    \/ \E now \in Timestamps : SaveHistory(now)
Spec == Init /\ [][Next]_vars

InitConc == PureIdle /\ ExtractIdle /\ GuiIdle /\ ConcInit
NextConc ==
    \E c \in 1..NCalls :
        \/ LoadPage(c)
        \/ LocateTitle(c)
        \/ TryCandidate(c)
        \/ CheckFound(c)
        \/ DeriveHint(c)
        \/ NormalizePrice(c)
        \/ ReturnOrRaise(c)
SpecConc == InitConc /\ [][NextConc]_vars

---------------------------------------------------------------------------
(* Properties *)

\* C1: the price locator chain is first-match-wins.  The price text the
\* call uses is the stripped text of the first selector, in the order of
\* candidates, whose element exists with non-empty text, whatever later
\* selectors match; a selector whose element exists with empty text is
\* skipped.  (SpecExtract)
C1_FirstMatchWins ==
    (page.load = "ok" /\ result # Pending) =>
        LET hits == {i \in 1..Len(candidates) :
                        /\ select_one(page.soup, candidates[i]) # NoneVal
                        /\ get_text(select_one(page.soup, candidates[i])) # <<>>}
            first == CHOOSE i \in hits : \A j \in hits : i <= j
            used == get_text(select_one(page.soup, candidates[first]))
        IN  hits # {} =>
               /\ strip(used) = used
               /\ IF normalize_price_to_float(used) = NoneVal
                  THEN result = Raise("RuntimeError", UnparseableMsg)
                  ELSE result.kind = "return" /\ result.data.price_text = used

\* C1 witness: an earlier selector's element is empty, a middle one has
\* text and a later one has other text; the middle one's text is returned
C1_Witness ==
    /\ page.load = "ok"
    /\ result # Pending
    /\ result.kind = "return"
    /\ \E i, j, k \in 1..Len(candidates) :
          /\ i < j /\ j < k
          /\ select_one(page.soup, candidates[i]) # NoneVal
          /\ get_text(select_one(page.soup, candidates[i])) = <<>>
          /\ select_one(page.soup, candidates[j]) # NoneVal
          /\ select_one(page.soup, candidates[k]) # NoneVal
          /\ get_text(select_one(page.soup, candidates[k])) # <<>>
          /\ get_text(select_one(page.soup, candidates[k])) # result.data.price_text
          /\ get_text(select_one(page.soup, candidates[j])) = result.data.price_text

\* C2: the title is empty only if every title rule yields no element or
\* only empty text; otherwise it is the text of the first title rule, in
\* priority order, whose element has non-empty text.  (SpecExtract)
C2_TitleFirstNonEmpty ==
    (page.load = "ok" /\ result # Pending /\ result.kind = "return") =>
        LET hits == {i \in 1..Len(TitleSelectors) :
                        /\ select_one(page.soup, TitleSelectors[i]) # NoneVal
                        /\ get_text(select_one(page.soup, TitleSelectors[i])) # <<>>}
            first == CHOOSE i \in hits : \A j \in hits : i <= j
        IN  IF hits = {} THEN result.data.title = <<>>
            ELSE result.data.title = get_text(select_one(page.soup, TitleSelectors[first]))

\* C3: normalize_price_to_float follows the separator policy.  Of the text
\* only digits, '.' and ',' count.  The decimal mark is the mark whose last
\* occurrence is farthest right when both occur, ',' when only ',' occurs;
\* every decimal ',' becomes '.', every occurrence of the other mark is
\* dropped, and with only '.' or no mark the string is unchanged.  The
\* result is the base-10 value of the rewritten string, and None exactly
\* when that string is not a decimal literal.  (SpecPure)
C3_SeparatorPolicy ==
    price_out # Pending =>
        LET kept == SelectSeq(text, LAMBDA c : c \in Digits \cup {".", ","})
            marks == {i \in 1..Len(kept) : kept[i] \in {".", ","}}
            both == Contains(kept, ".") /\ Contains(kept, ",")
            decimal == IF both THEN kept[CHOOSE i \in marks : \A j \in marks : j <= i]
                       ELSE IF Contains(kept, ",") THEN "," ELSE "."
            noOther == SelectSeq(kept, LAMBDA c : c \in Digits \/ c = decimal)
            rewritten == [i \in 1..Len(noOther) |->
                             IF noOther[i] = decimal THEN "." ELSE noOther[i]]
            dotAt == {i \in 1..Len(rewritten) : rewritten[i] = "."}
            digitAt == {i \in 1..Len(rewritten) : rewritten[i] \in Digits}
            literal == Cardinality(dotAt) <= 1 /\ digitAt # {}
            fraction == IF dotAt = {} THEN 0
                        ELSE Cardinality({i \in digitAt : \A d \in dotAt : i > d})
            weight(i) == Pow10(Cardinality({j \in digitAt : j > i}))
            units[n \in 0..Len(rewritten)] ==
                IF n = 0 THEN 0
                ELSE units[n - 1]
                     + (IF n \in digitAt THEN DigitVal(rewritten[n]) * weight(n) ELSE 0)
        IN  /\ (~both /\ ~Contains(kept, ",")) => rewritten = kept
            /\ IF literal
               THEN /\ price_out.tag = "float"
                    /\ price_out.m * Pow10(fraction) = units[Len(rewritten)] * Pow10(price_out.e)
               ELSE price_out = NoneVal
            /\ text = Ex_TR => price_out = [tag |-> "float", m |-> 123456, e |-> 2]
            /\ text = Ex_US => price_out = [tag |-> "float", m |-> 123456, e |-> 2]
            /\ text = Ex_Comma => price_out = [tag |-> "float", m |-> 499, e |-> 1]
            /\ text = Ex_Dollar => price_out = [tag |-> "float", m |-> 499, e |-> 1]

\* C3 witness: "1.234,56 TL", both marks present, has been normalised
C3_Witness ==
    text = Ex_TR /\ price_out = [tag |-> "float", m |-> 123456, e |-> 2]

\* C4: on a loaded page the extraction fails in exactly two cases, each with
\* its own failure: not-found exactly when no price selector yields
\* non-empty text, unparseable exactly when price text was found and the
\* normaliser returns None (as for any text without digits).  In every
\* other case it returns a record, with an empty title when no title rule
\* matches.  (SpecExtract)
C4_TwoFailures ==
    (page.load = "ok" /\ result # Pending) =>
        LET hits == {i \in 1..Len(candidates) :
                        /\ select_one(page.soup, candidates[i]) # NoneVal
                        /\ get_text(select_one(page.soup, candidates[i])) # <<>>}
            first == CHOOSE i \in hits : \A j \in hits : i <= j
            found == get_text(select_one(page.soup, candidates[first]))
            notFound == Raise("RuntimeError", NotFoundMsg)
            unparseable == Raise("RuntimeError", UnparseableMsg)
            noTitle == \A i \in 1..Len(TitleSelectors) :
                           select_one(page.soup, TitleSelectors[i]) = NoneVal
        IN  /\ notFound # unparseable
            /\ result = notFound <=> hits = {}
            /\ result = unparseable <=>
                  (hits # {} /\ normalize_price_to_float(found) = NoneVal)
            /\ (hits # {} /\ \A i \in 1..Len(found) : found[i] \notin Digits)
                  => result = unparseable
            /\ result \notin {notFound, unparseable} =>
                  /\ result.kind = "return"
                  /\ noTitle => result.data.title = <<>>

\* C4 witness: price text "-" was found under a title and could not be parsed
C4_Witness ==
    /\ page.load = "ok"
    /\ result = Raise("RuntimeError", UnparseableMsg)
    /\ select_one(page.soup, TitleSelectors[1]) # NoneVal
    /\ \E i \in 1..Len(candidates) :
          /\ select_one(page.soup, candidates[i]) # NoneVal
          /\ get_text(select_one(page.soup, candidates[i])) = Ex_Dash

\* C5: no partial observation.  A record returned by fetch_amazon_price has
\* a float price, a non-empty price_text and price = normaliser(price_text);
\* a failed call returns no record, and last_result is never set from it.
\* (Spec)
C5_NoPartialObservation ==
    /\ last_result # NoneVal =>
          /\ last_result.price.tag = "float"
          /\ last_result.price_text # <<>>
          /\ last_result.price = normalize_price_to_float(last_result.price_text)
    /\ fetched # Pending =>
          IF fetched.kind = "return"
          THEN /\ fetched.data.price.tag = "float"
               /\ fetched.data.price_text # <<>>
               /\ fetched.data.price = normalize_price_to_float(fetched.data.price_text)
          ELSE /\ DOMAIN fetched = {"kind", "exc", "msg"}
               /\ last_result = NoneVal

\* C5 witness: a fetch found price text that does not parse; nothing is kept
C5_Witness ==
    /\ op = "fetch_price"
    /\ fetched = Raise("RuntimeError", UnparseableMsg)
    /\ last_result = NoneVal

\* C6: the currency hint is the price text with every digit, '.', ',' and
\* whitespace character deleted and the other characters in their order;
\* an empty hint does not make the extraction fail.  (SpecPure)
C6_CurrencyHint ==
    hint_out # Pending =>
        LET h == hint_out.s
            keptAt == {i \in 1..Len(text) :
                          text[i] \notin Digits \cup {".", ","} \cup Whitespace}
        IN  /\ Len(h) = Cardinality(keptAt)
            /\ \A i \in keptAt : h[Cardinality({j \in keptAt : j <= i})] = text[i]
            /\ text = Ex_Dollar => h = <<"$">>
            /\ text = Ex_TR => h = <<"T", "L">>
            /\ (h = <<>> /\ normalize_price_to_float(text) # NoneVal) =>
                  /\ Assemble(AmazonUrl, <<>>, PyStr(text)).kind = "return"
                  /\ Assemble(AmazonUrl, <<>>, PyStr(text)).data.currency_hint = <<>>

\* C6 witness: the hint of "1.234,56 TL" has been derived
C6_Witness ==
    text = Ex_TR /\ hint_out = PyStr(<<"T", "L">>)

\* C7: concurrent calls on independent pages never interfere: under every
\* interleaving each finished call has returned what a call alone on its
\* own page returns.  (SpecConc)
C7_NoInterference ==
    \A c \in DOMAIN calls :
        calls[c].pc = "done" =>
            calls[c].ret = fetch_amazon_price(calls[c].url, calls[c].pg)

\* C7 witness: two calls on different pages have both returned records
C7_Witness ==
    /\ calls # <<>>
    /\ calls[1].pc = "done" /\ calls[2].pc = "done"
    /\ calls[1].pg # calls[2].pg
    /\ calls[1].ret.kind = "return" /\ calls[2].ret.kind = "return"
    /\ calls[1].ret # calls[2].ret

\* C8: the history file is append-only with a single header.  Starting
\* without the file, its first row is the header, the header occurs once,
\* every save appends exactly one data row after the earlier rows, and no
\* other step changes the file.  (Spec)
C8_AppendOnlyHistory ==
    /\ [](csv_file.exists =>
             /\ Len(csv_file.rows) >= 2
             /\ csv_file.rows[1] = Header
             /\ \A i \in 2..Len(csv_file.rows) : csv_file.rows[i] # Header)
    /\ [][ /\ op' # "save_history" => csv_file' = csv_file
           /\ op' = "save_history" =>
                 LET before == IF csv_file.exists THEN csv_file.rows ELSE <<Header>>
                 IN  /\ csv_file'.exists
                     /\ Len(csv_file'.rows) = Len(before) + 1
                     /\ SubSeq(csv_file'.rows, 1, Len(before)) = before
                     /\ \E now \in Timestamps :
                           csv_file'.rows[Len(before) + 1] =
                               <<now, last_result.url, last_result.title,
                                 FloatStr(last_result.price), last_result.price_text>>
         ]_vars

\* C8 witness: the header and MaxRows data rows
C8_Witness ==
    csv_file.exists /\ Len(csv_file.rows) = MaxRows + 1

\* C9: a fetch shows the Target Reached alert iff the extraction succeeded,
\* the target is greater than 0 and the price is at most the target.  (Spec)
C9_TargetAlert ==
    op = "fetch_price" =>
        (shown = "Target Reached!" <=>
            /\ ~InvalidUrl(strip(url_input))
            /\ fetched.kind = "return"
            /\ target_price > 0
            /\ ~(fetched.data.price.m > target_price * Pow10(fetched.data.price.e)))

\* C9 witness: the alert for a price equal to the target
C9_Witness ==
    /\ op = "fetch_price"
    /\ shown = "Target Reached!"
    /\ target_price = 2
    /\ fetched.data.price = [tag |-> "float", m |-> 2, e |-> 0]

\* C10: no stale save.  Between handlers the Save button is enabled iff
\* last_result holds a result, last_result is the record of the most recent
\* fetch that passed the URL check if it succeeded and None if it failed,
\* and the Fetch button is enabled; a fetch with an invalid URL leaves
\* last_result and both buttons unchanged, and a save writes the record of
\* that most recent fetch only.  (Spec)
C10_NoStaleSave ==
    /\ [](/\ fetch_btn
          /\ save_btn <=> last_result # NoneVal
          /\ last_result = (IF fetched # Pending /\ fetched.kind = "return"
                            THEN fetched.data ELSE NoneVal))
    /\ [][ /\ (op' = "fetch_price" /\ InvalidUrl(strip(url_input))) =>
                 UNCHANGED <<last_result, fetch_btn, save_btn>>
           /\ csv_file' # csv_file =>
                 /\ fetched # Pending
                 /\ fetched.kind = "return"
                 /\ \E now \in Timestamps :
                       csv_file'.rows[Len(csv_file'.rows)] =
                           <<now, fetched.data.url, fetched.data.title,
                             FloatStr(fetched.data.price), fetched.data.price_text>>
         ]_vars

\* C10 witness: after a saved result, a later fetch timed out
C10_Witness ==
    /\ csv_file.exists
    /\ op = "fetch_price"
    /\ fetched = Raise("TimeoutException", "")
    /\ ~save_btn

====
